---- MODULE Spec2Model ----
(***************************************************************************)
(* Model of script.js, a canvas Pong game: the simulation step update(dt), *)
(* the animation-frame loop, the input handlers and the post-score timer.  *)
(*                                                                         *)
(* Numbers.  The program computes in IEEE doubles; the model computes in   *)
(* fixed point.  Lengths are in 1/1000 pixel, velocities in 1/1000 pixel   *)
(* per nominal frame, angles in whole degrees, sines and cosines in        *)
(* 1/1000.  Time stamps count half nominal frames (16.6667 / 2 ms), so the *)
(* elapsed value of loop() is (ts - lastTime) / 2 nominal frames; the      *)
(* parameter dt of update is carried in the same half-frame unit and every *)
(* use of it divides by TicksPerFrame.                                     *)
(***************************************************************************)
EXTENDS Integers, Sequences, FiniteSets, TLC

(* ---- canvas and constants (script.js 8-49) ---- *)
(* canvas.width and canvas.height come from the page; a 180 x 150 canvas *)
WIDTH == 180000
HEIGHT == 150000
PADDLE_WIDTH == 10000
PADDLE_HEIGHT == 100000
PADDING == 12000
MAX_BOUNCE_ANGLE == 75
BALL_R == 8000
BALL_SPEED == 6000
PLAYER_SPEED == 6000
CPU_SPEED == 5000
SCORE_MARGIN == 50000
UNSTICK == 500
SPEED_UP == 200
TicksPerFrame == 2

(* ---- bounds of the model ---- *)
(* frames are modelled up to this time stamp *)
MaxTime == 10

(* time between two animation frames, in half frames: none, one frame, *)
(* two and a half frames                                               *)
Gaps == {0, 2, 5}
(* Math.random() * 60 - 30 degrees, sampled *)
ServeAngles == {-30, 0, 30}
(* e.clientY - rect.top of a mousemove, sampled (also outside the canvas) *)
PointerYs == {-20000, 75000}
(* e.code of a key event; "Space" stands for every other key *)
KeyCodes == {"ArrowUp", "ArrowDown", "Space"}

VARIABLES player, cpu, ball, score, lastTime, paused, mouseActive, keyState,
          audioCtx, audioUnlocked, timers, now

vars == <<player, cpu, ball, score, lastTime, paused, mouseActive, keyState,
          audioCtx, audioUnlocked, timers, now>>

(* ---- arithmetic helpers ---- *)
Min(a, b) == IF a <= b THEN a ELSE b
Max(a, b) == IF a >= b THEN a ELSE b
Abs(a) == IF a < 0 THEN -a ELSE a

(* nearest integer to a / b, b > 0, halves away from zero *)
RoundDiv(a, b) ==
  IF a >= 0 THEN (2 * a + b) \div (2 * b) ELSE -((2 * (-a) + b) \div (2 * b))

RECURSIVE SqrtSearch(_, _, _)
SqrtSearch(n, lo, hi) ==
  IF lo >= hi THEN lo
  ELSE LET mid == (lo + hi + 1) \div 2
       IN IF mid * mid <= n THEN SqrtSearch(n, mid, hi)
          ELSE SqrtSearch(n, lo, mid - 1)

(* nearest integer to the square root of n *)
Sqrt(n) ==
  LET f == SqrtSearch(n, 0, 40000)
  IN IF n - f * f > (f + 1) * (f + 1) - n THEN f + 1 ELSE f

(* Math.hypot *)
Hypot(a, b) == Sqrt(a * a + b * b)

SinTable ==
  << 0, 17, 35, 52, 70, 87, 105, 122, 139, 156,
     174, 191, 208, 225, 242, 259, 276, 292, 309, 326,
     342, 358, 375, 391, 407, 423, 438, 454, 469, 485,
     500, 515, 530, 545, 559, 574, 588, 602, 616, 629,
     643, 656, 669, 682, 695, 707, 719, 731, 743, 755,
     766, 777, 788, 799, 809, 819, 829, 839, 848, 857,
     866, 875, 883, 891, 899, 906, 914, 921, 927, 934,
     940, 946, 951, 956, 961, 966, 970, 974, 978, 982,
     985, 988, 990, 993, 995, 996, 998, 999, 999, 1000,
     1000 >>

(* Math.sin and Math.cos of an angle in degrees, -90..90, in 1/1000 *)
Sin(deg) == IF deg < 0 THEN -SinTable[(-deg) + 1] ELSE SinTable[deg + 1]
Cos(deg) == SinTable[(90 - Abs(deg)) + 1]

(* mutant of clamp: the lower limit is forgotten *)
clampUpperOnly(v, a, b) == Min(b, v)

clamp(v, a, b) == Max(a, Min(b, v))

(* ---- the state update() and the handlers work on ---- *)
World ==
  [player |-> player, cpu |-> cpu, ball |-> ball, score |-> score,
   paused |-> paused, keyState |-> keyState, timers |-> timers,
   audioUnlocked |-> audioUnlocked]

(* mutant of resetBall: ball.y is not put back to the centre *)
resetBallKeepY(b, direction, angle, coin) ==
  LET dir == IF direction = "left" THEN -1
             ELSE IF direction = "right" THEN 1
             ELSE coin
  IN [b EXCEPT !.x = WIDTH \div 2,
               !.speed = BALL_SPEED,
               !.vx = dir * RoundDiv(BALL_SPEED * Cos(angle), 1000),
               !.vy = RoundDiv(BALL_SPEED * Sin(angle), 1000)]

(* resetBall(direction): angle and coin are the two Math.random() draws *)
resetBall(b, direction, angle, coin) ==
  LET dir == IF direction = "left" THEN -1
             ELSE IF direction = "right" THEN 1
             ELSE coin
  IN [b EXCEPT !.x = WIDTH \div 2,
               !.y = HEIGHT \div 2,
               !.speed = BALL_SPEED,
               !.vx = dir * RoundDiv(BALL_SPEED * Cos(angle), 1000),
               !.vy = RoundDiv(BALL_SPEED * Sin(angle), 1000)]

(* ---- update(dt), script.js 182-270, one operator per step ---- *)

(* 183-191: keyboard movement of the player's paddle *)
movePlayer(w, dt) ==
  LET p == w.player
      dy == IF w.keyState.ArrowUp THEN -p.speed
            ELSE IF w.keyState.ArrowDown THEN p.speed
            ELSE 0
      y1 == p.y + (dy * dt) \div TicksPerFrame
  IN [p EXCEPT !.dy = dy, !.y = clamp(y1, 0, HEIGHT - p.height)]

(* 194-201: the CPU paddle follows the ball or recentres *)
cpuTarget(w) ==
  IF w.ball.vx > 0 THEN w.ball.y - w.cpu.height \div 2
  ELSE HEIGHT \div 2 - w.cpu.height \div 2

cpuMaxStep(w, dt) == (w.cpu.speed * dt * 10) \div TicksPerFrame

(* mutant of moveCpu: the step is not capped by maxStep *)
moveCpuSnaps(w, dt) ==
  LET c == w.cpu
  IN [c EXCEPT !.y = clamp(cpuTarget(w), 0, HEIGHT - c.height)]

(* 193-205 *)
moveCpu(w, dt) ==
  LET c == w.cpu
      delta == cpuTarget(w) - c.y
      maxStep == cpuMaxStep(w, dt)
      y1 == c.y + clamp(delta, -maxStep, maxStep)
  IN [c EXCEPT !.y = clamp(y1, 0, HEIGHT - c.height)]

(* 207-209 *)
moveBall(b, dt) ==
  [b EXCEPT !.x = b.x + (b.vx * dt * 10) \div TicksPerFrame,
            !.y = b.y + (b.vy * dt * 10) \div TicksPerFrame]

(* 211-220 *)
hitsTop(b) == b.y - b.r <= 0
hitsBottom(b) == b.y + b.r >= HEIGHT

(* mutant of collideWalls: vy is negated but the ball is left where it is *)
collideWallsNoClamp(b) ==
  IF hitsTop(b) THEN [b EXCEPT !.vy = -b.vy]
  ELSE IF hitsBottom(b) THEN [b EXCEPT !.vy = -b.vy]
  ELSE b

(* 211-220 *)
collideWalls(b) ==
  IF hitsTop(b) THEN [b EXCEPT !.y = b.r, !.vy = -b.vy]
  ELSE IF hitsBottom(b) THEN [b EXCEPT !.y = HEIGHT - b.r, !.vy = -b.vy]
  ELSE b

(* 229, 244: (ball.y - paddle centre) / (height / 2), in 1/1000 *)
relativeY(b, p) == RoundDiv((b.y - (p.y + p.height \div 2)) * 1000, p.height \div 2)

(* 230, 245: relativeY * MAX_BOUNCE_ANGLE, in degrees *)
bounceAngle(b, p) == RoundDiv(relativeY(b, p) * MAX_BOUNCE_ANGLE, 1000)

(* mutant of bounceSpeed: the bounce keeps the incoming speed *)
bounceSpeedFlat(b) == Hypot(b.vx, b.vy)

(* 231, 246 *)
bounceSpeed(b) == Hypot(b.vx, b.vy) + SPEED_UP

(* 224-227 *)
hitsPlayer(b, p) ==
  /\ b.x - b.r <= p.x + p.width
  /\ b.x - b.r >= p.x
  /\ b.y + b.r >= p.y
  /\ b.y - b.r <= p.y + p.height

(* mutant of bouncePlayer: the ball is not pushed out of the paddle *)
bouncePlayerSticks(b, p) ==
  LET a == bounceAngle(b, p)
      speed == bounceSpeed(b)
  IN [b EXCEPT !.vx = Abs(RoundDiv(Cos(a) * speed, 1000)),
               !.vy = RoundDiv(Sin(a) * speed, 1000)]

(* 228-235 *)
bouncePlayer(b, p) ==
  LET a == bounceAngle(b, p)
      speed == bounceSpeed(b)
  IN [b EXCEPT !.vx = Abs(RoundDiv(Cos(a) * speed, 1000)),
               !.vy = RoundDiv(Sin(a) * speed, 1000),
               !.x = p.x + p.width + b.r + UNSTICK]

(* 240-243 *)
hitsCpu(b, c) ==
  /\ b.x + b.r >= c.x
  /\ b.x + b.r <= c.x + c.width
  /\ b.y + b.r >= c.y
  /\ b.y - b.r <= c.y + c.height

(* 244-249 *)
bounceCpu(b, c) ==
  LET a == bounceAngle(b, c)
      speed == bounceSpeed(b)
  IN [b EXCEPT !.vx = -Abs(RoundDiv(Cos(a) * speed, 1000)),
               !.vy = RoundDiv(Sin(a) * speed, 1000),
               !.x = c.x - b.r - UNSTICK]

(* 254, 262 *)
cpuScores(b) == b.x < -SCORE_MARGIN
playerScores(b) == b.x > WIDTH + SCORE_MARGIN

(* the ball after movement, walls and paddles, before the score test *)
ballInPlay(w, dt) ==
  LET p1 == movePlayer(w, dt)
      c1 == moveCpu(w, dt)
      b1 == moveBall(w.ball, dt)
      b2 == collideWalls(b1)
      b3 == IF hitsPlayer(b2, p1) THEN bouncePlayer(b2, p1) ELSE b2
  IN IF hitsCpu(b3, c1) THEN bounceCpu(b3, c1) ELSE b3

(* mutant of serveAfterCpuScores: the serve follows the comment at 258 *)
serveTowardPlayer == "left"

(* the direction handed to resetBall at 259 and 266 *)
serveAfterCpuScores == "right"
serveAfterPlayerScores == "left"

(* ---- sounds: 77-110.  A call ends normally or with an exception ---- *)

(* the Web Audio backend of one tick: its calls succeed, or one of them *)
(* (new AudioCtx(), createOscillator(), start(), ...) throws            *)
AudioBackends == {"works", "throws"}

(* 79-90: the statements inside the try block of playTone *)
toneBody(backend) == IF backend = "throws" THEN "exception" ELSE "normal"

(* mutant of playTone: the body runs without the try/catch around it *)
playToneUnguarded(backend) == toneBody(backend)

(* 77-94: try { body } catch (e) { } ends normally whatever the body does *)
playTone(backend) ==
  IF toneBody(backend) = "exception" THEN "normal" ELSE toneBody(backend)

(* 96-99 *)
playPaddleSound(backend) == playTone(backend)

(* 101-104 *)
playWallSound(backend) == playTone(backend)

(* 106-110: the second tone is played from a timer callback of its own, *)
(* which touches no game state                                          *)
playScoreSound(backend) == playTone(backend)

(* 182-270, with the sound calls: an exception that leaves a sound call  *)
(* ends update there, with the assignments made so far.  angle is the    *)
(* Math.random() draw of a serve.                                        *)
updateAudio(w, dt, angle, backend) ==
  LET p1 == movePlayer(w, dt)
      c1 == moveCpu(w, dt)
      b1 == moveBall(w.ball, dt)
      b2 == collideWalls(b1)
      b3 == IF hitsPlayer(b2, p1) THEN bouncePlayer(b2, p1) ELSE b2
      b4 == IF hitsCpu(b3, c1) THEN bounceCpu(b3, c1) ELSE b3
      raises(sound) == w.audioUnlocked /\ sound = "exception"
      at(b) == [w EXCEPT !.player = p1, !.cpu = c1, !.ball = b]
      aborted(x) == [world |-> x, completed |-> FALSE]
      done(x) == [world |-> x, completed |-> TRUE]
  IN IF (hitsTop(b1) \/ hitsBottom(b1)) /\ raises(playWallSound(backend))
       THEN aborted(at(b2))
     ELSE IF hitsPlayer(b2, p1) /\ raises(playPaddleSound(backend))
       THEN aborted(at(b3))
     ELSE IF hitsCpu(b3, c1) /\ raises(playPaddleSound(backend))
       THEN aborted(at(b4))
     ELSE IF cpuScores(b4)
       THEN IF raises(playScoreSound(backend))
              THEN aborted([at(b4) EXCEPT !.score.cpu = @ + 1])
              ELSE done([at(b4) EXCEPT
                           !.score.cpu = @ + 1,
                           !.ball = resetBall(b4, serveAfterCpuScores, angle, 1),
                           !.paused = TRUE,
                           !.timers = @ + 1])
     ELSE IF playerScores(b4)
       THEN IF raises(playScoreSound(backend))
              THEN aborted([at(b4) EXCEPT !.score.player = @ + 1])
              ELSE done([at(b4) EXCEPT
                           !.score.player = @ + 1,
                           !.ball = resetBall(b4, serveAfterPlayerScores, angle, 1),
                           !.paused = TRUE,
                           !.timers = @ + 1])
     ELSE done(at(b4))

(* update(dt) with no sound call in the way: angle is the Math.random() *)
(* draw of a serve                                                       *)
update(w, dt, angle) ==
  LET p1 == movePlayer(w, dt)
      c1 == moveCpu(w, dt)
      b4 == ballInPlay(w, dt)
      w1 == [w EXCEPT !.player = p1, !.cpu = c1, !.ball = b4]
  IN IF cpuScores(b4)
       THEN [w1 EXCEPT !.score.cpu = @ + 1,
                       !.ball = resetBall(b4, serveAfterCpuScores, angle, 1),
                       !.paused = TRUE,
                       !.timers = @ + 1]
     ELSE IF playerScores(b4)
       THEN [w1 EXCEPT !.score.player = @ + 1,
                       !.ball = resetBall(b4, serveAfterPlayerScores, angle, 1),
                       !.paused = TRUE,
                       !.timers = @ + 1]
     ELSE w1

(* 56-70: unlockAudio creates the context and sets the flag once *)
unlockAudio ==
  /\ audioCtx' = "ctx"
  /\ audioUnlocked' = TRUE

(* ---- initial state: the declarations 16-54 and resetBall() at 315 ---- *)
Init ==
  /\ player = [x |-> PADDING, y |-> (HEIGHT - PADDLE_HEIGHT) \div 2,
               width |-> PADDLE_WIDTH, height |-> PADDLE_HEIGHT,
               dy |-> 0, speed |-> PLAYER_SPEED]
  /\ cpu = [x |-> WIDTH - PADDING - PADDLE_WIDTH,
            y |-> (HEIGHT - PADDLE_HEIGHT) \div 2,
            width |-> PADDLE_WIDTH, height |-> PADDLE_HEIGHT,
            speed |-> CPU_SPEED]
  /\ \E angle \in ServeAngles, coin \in {-1, 1} :
       ball = resetBall([x |-> WIDTH \div 2, y |-> HEIGHT \div 2, r |-> BALL_R,
                         speed |-> BALL_SPEED, vx |-> 0, vy |-> 0],
                        "null", angle, coin)
  /\ score = [player |-> 0, cpu |-> 0]
  /\ lastTime = 0
  /\ paused = FALSE
  /\ mouseActive = FALSE
  /\ keyState = [ArrowUp |-> FALSE, ArrowDown |-> FALSE]
  /\ audioCtx = "null"
  /\ audioUnlocked = FALSE
  /\ timers = 0
  /\ now = 0

(* ---- events ---- *)

(* 273-274: the elapsed value of the frame at time stamp ts, in half frames *)
elapsed(ts) == ts - (IF lastTime = 0 THEN ts ELSE lastTime)

(* mutant of loop: a frame skipped while paused leaves lastTime alone *)
loopSkipsPaused(gap) ==
  /\ now + gap <= MaxTime
  /\ LET ts == now + gap
     IN /\ now' = ts
        /\ lastTime' = (IF paused THEN lastTime ELSE ts)
        /\ IF ~paused
             THEN \E angle \in ServeAngles, backend \in AudioBackends :
                    LET u == updateAudio(World, elapsed(ts), angle, backend).world
                    IN /\ player' = u.player
                       /\ cpu' = u.cpu
                       /\ ball' = u.ball
                       /\ score' = u.score
                       /\ paused' = u.paused
                       /\ timers' = u.timers
             ELSE UNCHANGED <<player, cpu, ball, score, paused, timers>>
  /\ UNCHANGED <<mouseActive, keyState, audioCtx, audioUnlocked>>

(* 272-280: one animation frame, gap half-frames after the previous one *)
loop(gap) ==
  /\ now + gap <= MaxTime
  /\ LET ts == now + gap
     IN /\ now' = ts
        /\ lastTime' = ts
        /\ IF ~paused
             THEN \E angle \in ServeAngles, backend \in AudioBackends :
                    LET u == updateAudio(World, elapsed(ts), angle, backend).world
                    IN /\ player' = u.player
                       /\ cpu' = u.cpu
                       /\ ball' = u.ball
                       /\ score' = u.score
                       /\ paused' = u.paused
                       /\ timers' = u.timers
             ELSE UNCHANGED <<player, cpu, ball, score, paused, timers>>
  /\ UNCHANGED <<mouseActive, keyState, audioCtx, audioUnlocked>>

(* mutant of timerFires: the callback runs but leaves paused as it is *)
timerFiresIdle ==
  /\ timers > 0
  /\ timers' = timers - 1
  /\ UNCHANGED <<player, cpu, ball, score, lastTime, paused, mouseActive,
                 keyState, audioCtx, audioUnlocked, now>>

(* 261, 268: a pending setTimeout callback runs *)
timerFires ==
  /\ timers > 0
  /\ timers' = timers - 1
  /\ paused' = FALSE
  /\ UNCHANGED <<player, cpu, ball, score, lastTime, mouseActive, keyState,
                 audioCtx, audioUnlocked, now>>

(* 286: the paddle is centred on the pointer *)
pointerMove(p, y) ==
  [p EXCEPT !.y = clamp(y - p.height \div 2, 0, HEIGHT - p.height)]

(* 283-290 *)
mousemove(y) ==
  /\ player' = pointerMove(player, y)
  /\ mouseActive' = TRUE
  /\ unlockAudio
  /\ UNCHANGED <<cpu, ball, score, lastTime, paused, keyState, timers, now>>

(* mutant of keydown: any key also resumes the game *)
keydownResumes(code) ==
  /\ keyState' = IF code \in {"ArrowUp", "ArrowDown"}
                   THEN [keyState EXCEPT ![code] = TRUE]
                   ELSE keyState
  /\ paused' = FALSE
  /\ unlockAudio
  /\ UNCHANGED <<player, cpu, ball, score, lastTime, mouseActive, timers, now>>

(* 292-299 *)
keydown(code) ==
  /\ keyState' = IF code \in {"ArrowUp", "ArrowDown"}
                   THEN [keyState EXCEPT ![code] = TRUE]
                   ELSE keyState
  /\ unlockAudio
  /\ UNCHANGED <<player, cpu, ball, score, lastTime, paused, mouseActive,
                 timers, now>>

(* 301-306 *)
keyup(code) ==
  /\ keyState' = IF code \in {"ArrowUp", "ArrowDown"}
                   THEN [keyState EXCEPT ![code] = FALSE]
                   ELSE keyState
  /\ UNCHANGED <<player, cpu, ball, score, lastTime, paused, mouseActive,
                 audioCtx, audioUnlocked, timers, now>>

(* mutant of click: the click also restarts the match *)
clickRestarts ==
  /\ paused' = FALSE
  /\ score' = [player |-> 0, cpu |-> 0]
  /\ unlockAudio
  /\ UNCHANGED <<player, cpu, ball, lastTime, mouseActive, keyState,
                 timers, now>>

(* 308-312 *)
click ==
  /\ paused' = FALSE
  /\ unlockAudio
  /\ UNCHANGED <<player, cpu, ball, score, lastTime, mouseActive, keyState,
                 timers, now>>

(* 73-74: mousedown or touchstart anywhere in the window *)
gesture ==
  /\ unlockAudio
  /\ UNCHANGED <<player, cpu, ball, score, lastTime, paused, mouseActive,
                 keyState, timers, now>>

Frame == \E gap \in Gaps : loop(gap)
MouseMove == \E y \in PointerYs : mousemove(y)
KeyDown == \E code \in KeyCodes : keydown(code)
KeyUp == \E code \in KeyCodes : keyup(code)

Next ==
  \/ Frame
  \/ timerFires
  \/ MouseMove
  \/ KeyDown
  \/ KeyUp
  \/ click
  \/ gesture

Spec == Init /\ [][Next]_vars

(* 260, 268: a callback handed to setTimeout is run by the event loop once  *)
(* its delay is over: a pending callback is not postponed forever            *)
SpecLive == Spec /\ WF_vars(timerFires)

(* ---- properties ---- *)

(* elapsed values tried on update() in every reachable state: those of the *)
(* frames, and a gap of 700 ms                                             *)
ElapsedSamples == Gaps \cup {84}

(* every whole degree of the serve band *)
ServeBand == -30 .. 30

InField(y) == 0 <= y /\ y <= HEIGHT - PADDLE_HEIGHT

(* a step that is an animation frame running update(elapsed(now')) *)
UpdateTick == ~paused /\ Frame

CpuScoringTick ==
  /\ ~paused
  /\ cpuScores(ballInPlay(World, elapsed(now')))
  /\ Frame

PlayerScoringTick ==
  /\ ~paused
  /\ playerScores(ballInPlay(World, elapsed(now')))
  /\ Frame

(* C1: in every reachable state, and after update(dt) for every sampled      *)
(* elapsed value and after every sampled mousemove from it, player.y and     *)
(* cpu.y lie in [0, HEIGHT - PADDLE_HEIGHT].                                 *)
C1_PaddlesInField ==
  /\ InField(player.y)
  /\ InField(cpu.y)
  /\ \A dt \in ElapsedSamples :
       /\ InField(update(World, dt, 0).player.y)
       /\ InField(update(World, dt, 0).cpu.y)
  /\ \A y \in PointerYs : InField(pointerMove(player, y).y)

(* the keyboard has driven the player's paddle into the top edge and the CPU *)
(* paddle has been stopped at an edge                                        *)
C1_Witness ==
  /\ player.y = 0
  /\ player.dy < 0
  /\ cpu.y = 0

(* C2: a tick whose ball is left of -50 after the movement adds exactly 1 to *)
(* score.cpu, leaves score.player alone and ends with the ball at the centre *)
(* of the field; the same for the right margin and score.player.             *)
C2_ScoreAndReset ==
  \A dt \in ElapsedSamples, angle \in ServeAngles :
    LET x1 == moveBall(ball, dt).x
        u == update(World, dt, angle)
    IN /\ x1 < -SCORE_MARGIN =>
            /\ u.score.cpu = score.cpu + 1
            /\ u.score.player = score.player
            /\ u.ball.x = WIDTH \div 2
            /\ u.ball.y = HEIGHT \div 2
       /\ x1 > WIDTH + SCORE_MARGIN =>
            /\ u.score.player = score.player + 1
            /\ u.score.cpu = score.cpu
            /\ u.ball.x = WIDTH \div 2
            /\ u.ball.y = HEIGHT \div 2

(* the CPU has just scored and the ball is back at the centre *)
C2_Witness ==
  /\ score.cpu = 1
  /\ score.player = 0
  /\ paused
  /\ timers = 1
  /\ ball.x = WIDTH \div 2
  /\ ball.y = HEIGHT \div 2

(* C3: no step lowers a score; a score changes only in an update tick whose  *)
(* ball is beyond the 50-unit margin; no step raises the sum by more than 1. *)
C3_ScoresMonotone ==
  [][/\ score'.player >= score.player
     /\ score'.cpu >= score.cpu
     /\ score' # score => (CpuScoringTick \/ PlayerScoringTick)
     /\ score'.player + score'.cpu <= score.player + score.cpu + 1]_vars

(* a point has been scored, the pause is over and play has resumed *)
C3_Witness ==
  /\ score.player + score.cpu = 1
  /\ ~paused
  /\ ball.x # WIDTH \div 2

(* C4: at the end of a tick in which the CPU scores ball.vx < 0 (toward the  *)
(* player), and at the end of one in which the player scores ball.vx > 0.    *)
C4_ServeTowardScoredAgainst ==
  [][/\ CpuScoringTick => ball'.vx < 0
     /\ PlayerScoringTick => ball'.vx > 0]_vars

C6_FrozenWhilePaused ==
  [][paused =>
       /\ ball'.x = ball.x
       /\ ball'.y = ball.y
       /\ player'.y = player.y
       /\ cpu'.y = cpu.y]_vars

(* C7, as claimed: an update tick runs only when the timer of the latest     *)
(* score has fired.  Timers of equal delay fire in the order they were set,  *)
(* so the latest score's timer has fired exactly when none is pending.       *)
C7_PauseLastsUntilOwnTimer ==
  [][UpdateTick => timers = 0]_vars

(* C7, amended: a pause is ended only by a timer callback or by a click on   *)
(* the canvas, and an animation frame during the pause changes neither the   *)
(* paddles, the ball nor the score.                                          *)
C7_PauseEndsByTimerOrClick ==
  [][paused =>
       /\ ~paused' => (timerFires \/ click)
       /\ Frame => UNCHANGED <<player, cpu, ball, score>>]_vars

(* a click has ended the pause while the score's timer is still pending *)
C7_Witness ==
  /\ score.player + score.cpu = 1
  /\ ~paused
  /\ timers = 1

(* C8: with ArrowUp or ArrowDown held, a tick that follows a pointer sample  *)
(* ends with player.y = clamp(pointerY - PADDLE_HEIGHT/2, 0, HEIGHT -        *)
(* PADDLE_HEIGHT): no velocity integration is added.                         *)
C8_PointerTakesPrecedence ==
  \A y \in PointerYs, dt \in Gaps :
    (keyState.ArrowUp \/ keyState.ArrowDown) =>
      LET w == [World EXCEPT !.player = pointerMove(player, y)]
      IN update(w, dt, 0).player.y =
           clamp(y - PADDLE_HEIGHT \div 2, 0, HEIGHT - PADDLE_HEIGHT)

(* negative elapsed values: one frame and two and a half frames back *)
NegativeElapsed == {-2, -5}

(* C9: for every dt < 0, update(dt) gives the ball position, player.y and    *)
(* cpu.y that update(0) gives from the same state.                           *)
C9_NegativeElapsedIsZero ==
  \A dt \in NegativeElapsed, angle \in ServeAngles :
    LET u == update(World, dt, angle)
        z == update(World, 0, angle)
    IN /\ u.ball.x = z.ball.x
       /\ u.ball.y = z.ball.y
       /\ u.player.y = z.player.y
       /\ u.cpu.y = z.cpu.y

(* C10: a tick with elapsed = 0 leaves ball.x, ball.y, ball.vx, ball.vy,     *)
(* player.y, cpu.y and both scores unchanged.                                *)
C10_ZeroElapsedIsNoOp ==
  [][(~paused /\ elapsed(now') = 0 /\ Frame) =>
       /\ ball'.x = ball.x
       /\ ball'.y = ball.y
       /\ ball'.vx = ball.vx
       /\ ball'.vy = ball.vy
       /\ player'.y = player.y
       /\ cpu'.y = cpu.y
       /\ score' = score]_vars

(* ---- the steps of one tick, as update(dt) goes through them ---- *)

(* the ball after movement and walls *)
afterWalls(w, dt) == collideWalls(moveBall(w.ball, dt))

(* the player's paddle test succeeds in update(dt) *)
playerBounces(w, dt) == hitsPlayer(afterWalls(w, dt), movePlayer(w, dt))

(* the ball after the player's paddle step *)
afterPlayer(w, dt) ==
  IF playerBounces(w, dt)
    THEN bouncePlayer(afterWalls(w, dt), movePlayer(w, dt))
    ELSE afterWalls(w, dt)

(* the CPU's paddle test succeeds in update(dt) *)
cpuBounces(w, dt) == hitsCpu(afterPlayer(w, dt), moveCpu(w, dt))

(* magnitude of the ball's velocity *)
SpeedOf(b) == Hypot(b.vx, b.vy)

(* equal up to the rounding of the fixed-point sines: 0.01 pixel per frame *)
Near(a, b) == Abs(a - b) <= 10

(* C11: a tick whose ball meets the top wall leaves the wall step with       *)
(* y = r and vy >= 0, the negated incoming vy, which was negative; a tick    *)
(* whose ball meets the bottom wall leaves it with y = HEIGHT - r, vy <= 0.  *)
C11_WallBounceTurnsInward ==
  [][LET b1 == moveBall(ball, elapsed(now'))
         b2 == collideWalls(b1)
     IN (~paused /\ (hitsTop(b1) \/ hitsBottom(b1)) /\ Frame) =>
          /\ hitsTop(b1) =>
               /\ b2.y = b2.r
               /\ b2.vy >= 0
               /\ b2.vy = -ball.vy
               /\ ball.vy < 0
          /\ (~hitsTop(b1) /\ hitsBottom(b1)) =>
               /\ b2.y = HEIGHT - b2.r
               /\ b2.vy <= 0
               /\ b2.vy = -ball.vy
               /\ ball.vy > 0]_vars

(* C12: the speed of the ball changes only in a tick with a paddle bounce,   *)
(* to the incoming speed + 0.2, and in a scoring tick, to 6; every other     *)
(* step leaves it as it is, so it is always 6 + 0.2 n for a number n of      *)
(* bounces.  Equalities that go through a sine or cosine hold up to the      *)
(* rounding of the fixed point.                                              *)
C12_SpeedChanges ==
  [][ball' # ball =>
       LET dt == elapsed(now')
       IN /\ ~paused
          /\ Frame
          /\ IF cpuScores(ballInPlay(World, dt)) \/ playerScores(ballInPlay(World, dt))
               THEN Near(SpeedOf(ball'), BALL_SPEED)
             ELSE IF playerBounces(World, dt) \/ cpuBounces(World, dt)
               THEN Near(SpeedOf(ball'), SpeedOf(ball) + SPEED_UP)
             ELSE SpeedOf(ball') = SpeedOf(ball)
          /\ SpeedOf(ball') >= SpeedOf(ball) \/ Near(SpeedOf(ball'), BALL_SPEED)
          /\ \E n \in 0 .. MaxTime :
               Abs(SpeedOf(ball') - (BALL_SPEED + n * SPEED_UP)) <= 10 * (n + 1)]_vars

(* the ball has bounced off both paddles in one rally *)
C12_Witness ==
  /\ score.player + score.cpu = 0
  /\ Near(SpeedOf(ball), BALL_SPEED + 2 * SPEED_UP)

(* C13: a tick with a player-paddle bounce ends with ball.vx > 0 and the     *)
(* ball's left edge beyond the paddle's right edge, a tick with a CPU-paddle *)
(* bounce with ball.vx < 0 and ball.x + r < cpu.x; the next tick, whatever   *)
(* its elapsed value >= 0, does not bounce off the same paddle.              *)
C13_BounceLeavesPaddle ==
  [][(ball' # ball /\ ~paused /\ Frame) =>
       LET dt == elapsed(now')
       IN /\ playerBounces(World, dt) =>
               /\ ball'.vx > 0
               /\ ball'.x - ball'.r > player'.x + player'.width
               /\ \A d \in ElapsedSamples : ~playerBounces(World', d)
          /\ cpuBounces(World, dt) =>
               /\ ball'.vx < 0
               /\ ball'.x + ball'.r < cpu'.x
               /\ \A d \in ElapsedSamples : ~cpuBounces(World', d)]_vars

(* the ball has just been pushed out of the player's paddle *)
C13_Witness ==
  /\ ball.x = player.x + player.width + ball.r + UNSTICK
  /\ ball.vx > 0
  /\ ball.vy # 0

(* C14: for every elapsed value dt >= 0 the CPU paddle moves by at most      *)
(* cpu.speed * dt * 10, toward its target and never past it.                 *)
C14_CpuStepCapped ==
  \A dt \in ElapsedSamples :
    LET y1 == moveCpu(World, dt).y
        target == cpuTarget(World)
    IN /\ Abs(y1 - cpu.y) <= cpuMaxStep(World, dt)
       /\ cpu.y <= target => (cpu.y <= y1 /\ y1 <= target)
       /\ cpu.y >= target => (target <= y1 /\ y1 <= cpu.y)

(* the CPU paddle tracks a ball that comes at it, and its target is further  *)
(* away than the cap of a one-frame tick                                     *)
C14_Witness ==
  /\ ball.vx > 0
  /\ Abs(cpuTarget(World) - cpu.y) > cpuMaxStep(World, TicksPerFrame)
  /\ moveCpu(World, TicksPerFrame).y # cpu.y

(* the ball is within the field extended by the scoring margin *)
BallConfined(b) ==
  /\ b.r <= b.y
  /\ b.y <= HEIGHT - b.r
  /\ -SCORE_MARGIN <= b.x
  /\ b.x <= WIDTH + SCORE_MARGIN

(* C16: initially and at the end of every update tick r <= ball.y <=         *)
(* HEIGHT - r and -50 <= ball.x <= WIDTH + 50, for every elapsed value.      *)
C16_BallConfined ==
  /\ BallConfined(ball)
  /\ \A dt \in ElapsedSamples : BallConfined(update(World, dt, 0).ball)

(* the ball lies on the top wall, past the left edge of the field, within    *)
(* the scoring margin                                                        *)
C16_Witness ==
  /\ ball.y = ball.r
  /\ ball.x < 0
  /\ ball.x >= -SCORE_MARGIN

(* C17: at every paddle collision that a tick triggers relativeY is in       *)
(* [-1, 1], so that the bounce angle is at most 75 degrees in magnitude.     *)
C17_ContactOffsetInUnitRange ==
  ~paused =>
    \A dt \in Gaps :
      /\ playerBounces(World, dt) =>
           Abs(relativeY(afterWalls(World, dt), movePlayer(World, dt))) <= 1000
      /\ cpuBounces(World, dt) =>
           Abs(relativeY(afterPlayer(World, dt), moveCpu(World, dt))) <= 1000

(* the vertical extent of the ball overlaps that of the paddle *)
Covers(p, b) == b.y + b.r >= p.y /\ b.y - b.r <= p.y + p.height

(* C18: a tick in which the leading edge of the ball goes from in front of a *)
(* paddle's face to the face or beyond it, with the ball's vertical extent   *)
(* overlapping the paddle, is a tick with a bounce off that paddle.          *)
C18_NoTunnelling ==
  [][(ball' # ball /\ ~paused /\ Frame) =>
       LET dt == elapsed(now')
           p1 == movePlayer(World, dt)
           c1 == moveCpu(World, dt)
           b2 == afterWalls(World, dt)
           b3 == afterPlayer(World, dt)
       IN /\ ( /\ ball.x - ball.r > player.x + player.width
               /\ b2.x - b2.r <= p1.x + p1.width
               /\ Covers(p1, b2) ) => playerBounces(World, dt)
          /\ ( /\ ball.x + ball.r < cpu.x
               /\ b3.x + b3.r >= c1.x
               /\ Covers(c1, b3) ) => cpuBounces(World, dt)]_vars

(* C19: only a scoring tick sets paused, and every pause ends: with the      *)
(* timer callbacks run fairly, paused leads to not paused.                   *)
C19_EveryPauseEnds ==
  /\ [][(~paused /\ paused') => (CpuScoringTick \/ PlayerScoringTick)]_vars
  /\ [](paused => timers > 0)
  /\ (paused ~> ~paused)

(* a pause has been ended by its timer alone: the canvas was never clicked   *)
C19_Witness ==
  /\ score.player + score.cpu = 1
  /\ ~paused
  /\ timers = 0
  /\ ~audioUnlocked

(* C20: every animation frame, paused or not, sets lastTime to its time      *)
(* stamp; the elapsed value of a frame is the time since the preceding       *)
(* frame, 0 for the very first frame, and that is what update is run with.   *)
(* Written as "the frame equations hold, or the step is not a frame".        *)
C20_ElapsedSincePrecedingFrame ==
  [][LET sincePreceding == IF lastTime = 0 THEN 0 ELSE now' - now
         b4 == ballInPlay(World, sincePreceding)
     IN \/ /\ lastTime' = now'
           /\ elapsed(now') = sincePreceding
           /\ ~paused =>
                /\ player' = movePlayer(World, sincePreceding)
                /\ cpu' = moveCpu(World, sincePreceding)
                /\ IF cpuScores(b4) \/ playerScores(b4)
                     THEN ball'.x = WIDTH \div 2 /\ ball'.y = HEIGHT \div 2
                     ELSE ball' = b4
        \/ ~UNCHANGED <<mouseActive, keyState, audioCtx, audioUnlocked>>
        \/ ~Frame]_vars

(* the ball has moved in an update that ran after the pause of a score *)
C20_Witness ==
  /\ score.player + score.cpu = 1
  /\ ~paused
  /\ lastTime = now
  /\ ball.x # WIDTH \div 2
  /\ ball.y # HEIGHT \div 2

(* C15: for every tick, update runs to completion and leaves the same ball,  *)
(* paddles, scores and paused flag whether the audio backend works, throws   *)
(* inside playTone, or audio is not unlocked.                                *)
C15_SoundFailureContained ==
  ~paused =>
    \A dt \in Gaps, angle \in ServeAngles :
      LET locked == updateAudio([World EXCEPT !.audioUnlocked = FALSE],
                                dt, angle, "works")
          same == [world |-> [locked.world EXCEPT !.audioUnlocked = TRUE],
                   completed |-> TRUE]
      IN /\ locked.completed
         /\ \A backend \in AudioBackends :
              updateAudio([World EXCEPT !.audioUnlocked = TRUE],
                          dt, angle, backend) = same

(* audio is unlocked and the tick that led here bounced the ball off a wall, *)
(* which plays the wall sound                                                *)
C15_Witness ==
  /\ audioUnlocked
  /\ audioCtx = "ctx"
  /\ ~paused
  /\ ball.y = ball.r \/ ball.y = HEIGHT - ball.r

====
